---- MODULE Spec2Model ----
(***************************************************************************)
(* A model of src/src/SHPImporter.ts: the shapefile importer that groups   *)
(* loose files into datasets, decodes them, builds the attribute           *)
(* catalogue, asks the user for layer-name candidates and writes the       *)
(* layer/entity hierarchy inside an update/edit session pair.              *)
(*                                                                         *)
(* JavaScript strings are sequences of one-character strings, so that      *)
(* substring, quoting and number formatting are computed, not assumed.     *)
(* JavaScript values are records tagged by t (the result of typeof, with   *)
(* "Date" and "null" split off "object").                                  *)
(***************************************************************************)
EXTENDS Integers, Sequences, FiniteSets, TLC

VARIABLES
    pc,         \* control location of the operation being run
    frames,     \* extractGroups: one entry per active call, the items[] still to visit
    seen,       \* history: titles of the files handed to addToGroups, in order
    groups,     \* Record<string, ShapeGroup>                       (import: line 449)
    builtins,   \* properties written onto objects inherited from Object.prototype
    outputs,    \* the OutputChannel: sequence of messages
    details,    \* progress.details
    geoJSONs,   \* Record<string, GeoJSON>                          (import: line 451)
    propNames,  \* the attribute catalogue                          (import: line 452)
    todo,       \* decodeGeoJSONs: features of the current dataset not yet scanned
    layerNames, \* approved candidate fields                        (import: line 454)
    layerIDs,   \* the fallback counter layerIDs.next               (import: line 455)
    layers,     \* layers created by drawing.layers.add, in creation order
    entities,   \* primitives created by the editor, in creation order
    cur,        \* loop positions and locals of loadShapes / loadFeature / featureGeometry
    trace,      \* the picker, session, log and progress calls issued, in order
    exc,        \* the exception in flight ("none" when there is none)
    hist        \* history: exceptions raised, the state at the first one and at the
                \* picker call, and the feature each leaf layer was made from

vars == <<pc, frames, seen, groups, builtins, outputs, details, geoJSONs, propNames,
          todo, layerNames, layerIDs, layers, entities, cur, trace, exc, hist>>

(***************************************************************************)
(* Bounds of the model.                                                    *)
(***************************************************************************)
MaxItems == 2       \* longest list a propfind() returns
MaxDepth == 2       \* deepest nesting of extractGroups calls
MaxFiles == 3       \* files visited in one traversal
RunMaxFiles == 2    \* files visited in one run of import
RunMaxFeatures == 2 \* features the decoder returns in one run of import
MaxFeatures == 2    \* features of one run of the naming / catalogue specifications
MaxParts == 2       \* components (points, rings, polygons) of one geometry
MaxPoints == 3      \* points of one line string or ring

(***************************************************************************)
(* Strings and numbers.                                                    *)
(***************************************************************************)
DigitChar == <<"0", "1", "2", "3", "4", "5", "6", "7", "8", "9">>

\* String.prototype.substring(from, to) with 0-based indices, clamped as JS does
Substring(s, from, to) ==
    LET lo0 == IF from < 0 THEN 0 ELSE IF from > Len(s) THEN Len(s) ELSE from
        hi0 == IF to < 0 THEN 0 ELSE IF to > Len(s) THEN Len(s) ELSE to
        lo  == IF lo0 <= hi0 THEN lo0 ELSE hi0
        hi  == IF lo0 <= hi0 THEN hi0 ELSE lo0
    IN  SubSeq(s, lo + 1, hi)

RECURSIVE NatToString(_)
NatToString(n) ==
    IF n < 10 THEN <<DigitChar[n + 1]>>
    ELSE NatToString(n \div 10) \o <<DigitChar[(n % 10) + 1]>>

RECURSIVE Pow10(_)
Pow10(e) == IF e = 0 THEN 1 ELSE 10 * Pow10(e - 1)

RECURSIVE PadFraction(_, _)
PadFraction(s, e) == IF Len(s) >= e THEN s ELSE PadFraction(<<"0">> \o s, e)

\* JS values
Undefined == [t |-> "undefined"]
Null      == [t |-> "null"]
Str(s)    == [t |-> "string", s |-> s]
Bool(b)   == [t |-> "boolean", b |-> b]
\* a finite number m / 10^e (m not a multiple of 10 when e > 0), or NaN / Infinity
Num(m, e) == [t |-> "number", k |-> "finite", m |-> m, e |-> e]
NaN       == [t |-> "number", k |-> "NaN", m |-> 0, e |-> 0]
Infinity  == [t |-> "number", k |-> "Infinity", m |-> 0, e |-> 0]
\* a Date holding ms milliseconds since the epoch, or an invalid Date
Date(ms)    == [t |-> "Date", valid |-> TRUE, ms |-> ms]
InvalidDate == [t |-> "Date", valid |-> FALSE, ms |-> 0]

isFinite(v) == v.k = "finite"
IsInteger(v) == v.k = "finite" /\ v.e = 0

\* Number.prototype.toString() for the numbers of the model
NumberToString(v) ==
    IF v.k = "NaN" THEN <<"N", "a", "N">>
    ELSE IF v.k = "Infinity" THEN <<"I", "n", "f", "i", "n", "i", "t", "y">>
    ELSE LET a    == IF v.m < 0 THEN 0 - v.m ELSE v.m
             sign == IF v.m < 0 THEN <<"-">> ELSE <<>>
             p    == Pow10(v.e)
         IN  IF v.e = 0 THEN sign \o NatToString(a)
             ELSE sign \o NatToString(a \div p) \o <<".">>
                       \o PadFraction(NatToString(a % p), v.e)

MsPerDay == 86400000
\* Date.prototype.toLocaleString() in the en-US locale and the UTC zone, for the
\* instants of the model: midnight of a day of January 1970
DateToLocaleString(v) ==
    IF ~v.valid THEN <<"I", "n", "v", "a", "l", "i", "d", " ", "D", "a", "t", "e">>
    ELSE <<"1", "/">> \o NatToString((v.ms \div MsPerDay) + 1)
         \o <<"/", "1", "9", "7", "0", ",", " ", "1", "2", ":", "0", "0", ":", "0", "0", " ", "A", "M">>

(***************************************************************************)
(* JS objects with string keys: the own keys in insertion order, and the   *)
(* value of each.  A lookup that misses the own keys of an object created  *)
(* by {} finds the members of Object.prototype.                            *)
(***************************************************************************)
EmptyObject == [keys |-> <<>>, at |-> <<>>]

Range(s) == {s[i] : i \in 1..Len(s)}
IndexOf(s, x) == CHOOSE i \in 1..Len(s) : s[i] = x
HasOwn(obj, key) == key \in Range(obj.keys)
GetOwn(obj, key) == obj.at[IndexOf(obj.keys, key)]
Put(obj, key, val) ==
    IF HasOwn(obj, key)
    THEN [obj EXCEPT !.at[IndexOf(obj.keys, key)] = val]
    ELSE [keys |-> Append(obj.keys, key), at |-> Append(obj.at, val)]

ObjectPrototypeKeys ==
    { <<"v", "a", "l", "u", "e", "O", "f">>,
      <<"t", "o", "S", "t", "r", "i", "n", "g">>,
      <<"c", "o", "n", "s", "t", "r", "u", "c", "t", "o", "r">> }
Inherited(key) == [t |-> "function", builtin |-> key]

\* obj[key] for an object created by the literal {}
Get(obj, key) ==
    IF HasOwn(obj, key) THEN GetOwn(obj, key)
    ELSE IF key \in ObjectPrototypeKeys THEN Inherited(key)
    ELSE Undefined

(***************************************************************************)
(* Dataset Grouper: addToGroups, extractGroups.                            *)
(***************************************************************************)
ALLOWED_EXTENSIONS ==
    { <<"s", "h", "p">>, <<"d", "b", "f">>, <<"s", "h", "x">>, <<"s", "b", "n">>,
      <<"s", "b", "x">>, <<"a", "i", "h">>, <<"a", "i", "n">>, <<"p", "r", "j">>,
      <<"c", "p", "g">>, <<"i", "d", "x">> }

BaseName(title) == Substring(title, 0, Len(title) - 4)
Extension(title) == Substring(title, Len(title) - 3, Len(title))

ErrorMessage(fmt, arg) == [level |-> "error", fmt |-> fmt, arg |-> arg]

\* addToGroups after item.get() has returned bytes: the new values of
\* groups, builtins and outputs
addToGroups(g, b, out, title, bytes) ==
    LET name      == BaseName(title)
        extension == Extension(title)
        group     == Get(g, name)
    IN  IF extension \notin ALLOWED_EXTENSIONS
        THEN [groups |-> g, builtins |-> b,
              outputs |-> Append(out, ErrorMessage("Unsupported extension {0}", extension))]
        ELSE IF group = Undefined
        THEN [groups |-> Put(g, name, Put(EmptyObject, extension, bytes)),
              builtins |-> b, outputs |-> out]
        ELSE IF HasOwn(g, name)
        THEN [groups |-> Put(g, name, Put(group, extension, bytes)),
              builtins |-> b, outputs |-> out]
        ELSE \* group is a member of Object.prototype: the buffer is stored on it
             [groups |-> g,
              builtins |-> Put(b, name, Put(IF HasOwn(b, name) THEN GetOwn(b, name)
                                            ELSE EmptyObject, extension, bytes)),
              outputs |-> out]

Top(stack) == stack[Len(stack)]
Pop(stack) == SubSeq(stack, 1, Len(stack) - 1)
SetTop(stack, x) == [stack EXCEPT ![Len(stack)] = x]

\* extractGroups, default branch of the switch: item.get() returned the file's
\* bytes (every file has a buffer of its own, named by the file's position)
GroupFile(title, maxFiles) ==
    /\ pc = "extractGroups"
    /\ frames # <<>> /\ Top(frames) > 0
    /\ Len(seen) < maxFiles
    /\ LET r == addToGroups(groups, builtins, outputs, title, Len(seen) + 1)
       IN  /\ groups' = r.groups
           /\ builtins' = r.builtins
           /\ outputs' = r.outputs
    /\ details' = title
    /\ seen' = Append(seen, title)
    /\ frames' = SetTop(frames, Top(frames) - 1)
    /\ UNCHANGED <<pc, geoJSONs, propNames, todo, layerNames, layerIDs, layers,
                   entities, cur, trace, exc, hist>>

\* extractGroups, case MimeType.folder: item.propfind() returned n items and
\* the function calls itself on them
GroupFolder(n) ==
    /\ pc = "extractGroups"
    /\ frames # <<>> /\ Top(frames) > 0
    /\ Len(frames) < MaxDepth
    /\ frames' = Append(SetTop(frames, Top(frames) - 1), n)
    /\ UNCHANGED <<pc, seen, groups, builtins, outputs, details, geoJSONs, propNames,
                   todo, layerNames, layerIDs, layers, entities, cur, trace,
                   exc, hist>>

\* extractGroups: the for loop has run out of items and the call returns; when
\* the outermost call returns to import (forget), the history of the traversal
\* is dropped
GroupReturn(forget) ==
    /\ pc = "extractGroups"
    /\ frames # <<>> /\ Top(frames) = 0
    /\ frames' = Pop(frames)
    /\ pc' = IF Len(frames) = 1 THEN "decodeGeoJSONs" ELSE pc
    /\ seen' = IF forget /\ Len(frames) = 1 THEN <<>> ELSE seen
    /\ UNCHANGED <<groups, builtins, outputs, details, geoJSONs, propNames,
                   todo, layerNames, layerIDs, layers, entities, cur, trace,
                   exc, hist>>

(***************************************************************************)
(* The state before import has done anything.                              *)
(***************************************************************************)
NoCur == [i |-> 0, j |-> 0, root |-> 0, parent |-> 0, leaf |-> 0,
          geometry |-> Undefined, parts |-> <<>>]
NoHist == [raised |-> 0, snap |-> Undefined, picked |-> Undefined, leaves |-> <<>>]

Fresh ==
    /\ seen = <<>>
    /\ groups = EmptyObject /\ builtins = EmptyObject
    /\ outputs = <<>> /\ details = <<>>
    /\ geoJSONs = EmptyObject /\ propNames = EmptyObject
    /\ todo = 0 /\ layerNames = <<>> /\ layerIDs = 0
    /\ layers = <<>> /\ entities = <<>>
    /\ cur = NoCur /\ trace = <<>>
    /\ exc = "none" /\ hist = NoHist

(***************************************************************************)
(* SpecGroups: extractGroups applied to the file trees of the bounds.      *)
(***************************************************************************)
T_a_shp == <<"a", ".", "s", "h", "p">>
T_a_dbf == <<"a", ".", "d", "b", "f">>
T_b_shp == <<"b", ".", "s", "h", "p">>
T_a_txt == <<"a", ".", "t", "x", "t">>
T_b_SHP == <<"b", ".", "S", "H", "P">>
T_valueOf_shp == <<"v", "a", "l", "u", "e", "O", "f", ".", "s", "h", "p">>
T_valueOf_dbf == <<"v", "a", "l", "u", "e", "O", "f", ".", "d", "b", "f">>
Titles == {T_a_shp, T_a_dbf, T_b_shp, T_a_txt, T_b_SHP, T_valueOf_shp, T_valueOf_dbf}

InitGroups ==
    /\ pc = "extractGroups"
    /\ \E n \in 0..MaxItems : frames = <<n>>
    /\ Fresh

NextGroups ==
    \/ \E title \in Titles : GroupFile(title, MaxFiles)
    \/ \E n \in 0..MaxItems : GroupFolder(n)
    \/ GroupReturn(FALSE)

SpecGroups == InitGroups /\ [][NextGroups]_vars

\* the files visited so far whose extension is recognized / is not
Recognized == {i \in 1..Len(seen) : Extension(seen[i]) \in ALLOWED_EXTENSIONS}
Unrecognized == {i \in 1..Len(seen) : Extension(seen[i]) \notin ALLOWED_EXTENSIONS}
\* the last visited file with the base name and extension of file i
LastLike(i) ==
    CHOOSE j \in Recognized :
        /\ BaseName(seen[j]) = BaseName(seen[i]) /\ Extension(seen[j]) = Extension(seen[i])
        /\ \A k \in Recognized :
              (BaseName(seen[k]) = BaseName(seen[i]) /\ Extension(seen[k]) = Extension(seen[i]))
                  => k <= j
RECURSIVE UnrecognizedExtensions(_)
UnrecognizedExtensions(n) ==
    IF n = 0 THEN <<>>
    ELSE IF n \in Unrecognized
         THEN Append(UnrecognizedExtensions(n - 1), Extension(seen[n]))
         ELSE UnrecognizedExtensions(n - 1)

\* C6: at every point of a traversal, every visited file with a recognized
\* extension is stored in the dataset named by its base name under its own
\* extension key (so two files that differ only in the extension share a
\* dataset); the datasets hold nothing else, and every visited file with an
\* unrecognized extension has caused exactly one error message naming it.
C6_GroupedByBaseName ==
    /\ \A i \in Recognized :
          /\ HasOwn(groups, BaseName(seen[i]))
          /\ HasOwn(GetOwn(groups, BaseName(seen[i])), Extension(seen[i]))
          /\ GetOwn(GetOwn(groups, BaseName(seen[i])), Extension(seen[i])) = LastLike(i)
    /\ \A name \in Range(groups.keys) :
          \A ext \in Range(GetOwn(groups, name).keys) :
              \E i \in Recognized : BaseName(seen[i]) = name /\ Extension(seen[i]) = ext
    /\ outputs = [k \in 1..Cardinality(Unrecognized) |->
                     ErrorMessage("Unsupported extension {0}",
                                  UnrecognizedExtensions(Len(seen))[k])]

\* the same statement for the files whose base name is no member of Object.prototype
C6_OrdinaryTitlesOnly ==
    (\A i \in 1..Len(seen) : BaseName(seen[i]) \notin ObjectPrototypeKeys)
        => C6_GroupedByBaseName

\* two files of one base name were visited, then one with an unknown extension
C6_Witness ==
    /\ pc = "decodeGeoJSONs"
    /\ seen = <<T_a_shp, T_a_dbf, T_a_txt>>

(***************************************************************************)
(* Feature Decoder: addPropName, decodeGeoJSONs.                           *)
(***************************************************************************)
Quote == "\""

\* addPropName: the new values of propNames and builtins
addPropName(pn, b, propName, propValue) ==
    LET type == IF propValue.t = "number"
                THEN IF ~isFinite(propValue) THEN "undefined" ELSE "number"
                ELSE IF propValue.t = "string"
                THEN IF Len(propValue.s) = 0 THEN "undefined" ELSE "string"
                ELSE IF propValue.t = "Date"
                THEN IF ~propValue.valid THEN "undefined" ELSE "Date"
                ELSE "undefined"
        example == IF type = "string" THEN Str(<<Quote>> \o propValue.s \o <<Quote>>)
                   ELSE IF type = "Date" THEN Str(DateToLocaleString(propValue))
                   ELSE propValue
        examples == Get(pn, propName)
    IN  IF type = "undefined" THEN [propNames |-> pn, builtins |-> b]
        ELSE IF examples = Undefined
        THEN [propNames |-> Put(pn, propName, Put(EmptyObject, type, example)),
              builtins |-> b]
        ELSE IF HasOwn(pn, propName)
        THEN [propNames |-> Put(pn, propName, Put(examples, type, example)),
              builtins |-> b]
        ELSE \* examples is a member of Object.prototype
             [propNames |-> pn,
              builtins |-> Put(b, propName, Put(IF HasOwn(b, propName) THEN GetOwn(b, propName)
                                                ELSE EmptyObject, type, example))]

\* decodeGeoJSONs, lines 145-148: addPropName for the fields props.keys[i..]
RECURSIVE addPropNames(_, _, _, _)
addPropNames(pn, b, props, i) ==
    IF i > Len(props.keys) THEN [propNames |-> pn, builtins |-> b]
    ELSE LET r == addPropName(pn, b, props.keys[i], props.at[i])
         IN  addPropNames(r.propNames, r.builtins, props, i + 1)

\* the number of features of the first k decoded datasets
RECURSIVE DecodedFeatures(_)
DecodedFeatures(k) ==
    IF k = 0 THEN 0 ELSE Len(geoJSONs.at[k].features) + DecodedFeatures(k - 1)

\* the dataset decodeGeoJSONs is working on
DecodingName == groups.keys[cur.i]

\* decodeGeoJSONs, lines 133-138: shp(group) returned a GeoJSON of the given
\* type for the next dataset; n is the length of its features array, whose
\* members the model draws as the loop of line 141 reaches them; a run decodes
\* at most maxFeatures features
DecodeDataset(type, n, maxFeatures) ==
    /\ pc = "decodeGeoJSONs"
    /\ todo = 0
    /\ cur.i < Len(groups.keys)
    /\ n + DecodedFeatures(Len(geoJSONs.keys)) <= maxFeatures
    /\ cur' = [cur EXCEPT !.i = cur.i + 1]
    /\ geoJSONs' = Put(geoJSONs, groups.keys[cur.i + 1], [type |-> type, features |-> <<>>])
    /\ todo' = IF type = "FeatureCollection" THEN n ELSE 0
    /\ UNCHANGED <<pc, frames, seen, groups, builtins, outputs, details, propNames,
                   layerNames, layerIDs, layers, entities, trace, exc, hist>>

\* decodeGeoJSONs, lines 142-153: one turn of the loop over the features
DecodeFeature(feature) ==
    /\ pc = "decodeGeoJSONs"
    /\ todo > 0
    /\ LET g == GetOwn(geoJSONs, DecodingName)
           r == IF feature.type = "Feature"
                THEN addPropNames(propNames, builtins, feature.properties, 1)
                ELSE [propNames |-> propNames, builtins |-> builtins]
       IN  /\ geoJSONs' = Put(geoJSONs, DecodingName,
                               [g EXCEPT !.features = Append(g.features, feature)])
           /\ propNames' = r.propNames
           /\ builtins' = r.builtins
           /\ todo' = todo - 1
    /\ UNCHANGED <<pc, frames, seen, groups, outputs, details, layerNames, layerIDs,
                   layers, entities, cur, trace, exc, hist>>

\* a loop that stops after any dataset
DecodeStopsEarly == todo = 0

\* decodeGeoJSONs, line 133: the loop over the datasets has run out of names
DecodeFinished == todo = 0 /\ cur.i = Len(groups.keys)

\* decodeGeoJSONs: the loop over the datasets has ended and the function returns
DecodeReturn ==
    /\ pc = "decodeGeoJSONs"
    /\ DecodeFinished
    /\ pc' = "choosePossibleLayerNameProps"
    /\ cur' = NoCur
    /\ UNCHANGED <<frames, seen, groups, builtins, outputs, details, geoJSONs, propNames,
                   todo, layerNames, layerIDs, layers, entities, trace, exc, hist>>

(***************************************************************************)
(* Layer/Entity Assembler: featurePropValue, featureProps,                 *)
(* assignLayerName and the layer loadFeature creates.                      *)
(***************************************************************************)
K_name == <<"n", "a", "m", "e">>
K_type == <<"$", "t", "y", "p", "e">>

\* a DwgTypedObject {$value, $type}; type "none" when $type is not set
TypedObject(value, type) == [t |-> "typed", value |-> value, type |-> type]
SmdxElement == [t |-> "type", id |-> "SmdxElement"]

featurePropValue(prop) ==
    IF prop.t = "number" THEN TypedObject(prop, IF IsInteger(prop) THEN "int" ELSE "float")
    ELSE IF prop.t = "string" THEN TypedObject(prop, "string")
    ELSE IF prop.t = "boolean" THEN TypedObject(prop, "bool")
    ELSE IF prop.t = "Date" THEN TypedObject(Str(DateToLocaleString(prop)), "string")
    ELSE TypedObject(prop, "none")

\* featureProps for the fields rawProps.keys[i..]: the object built and the
\* messages featurePropValue has sent to the output channel
RECURSIVE featureProps(_, _, _, _)
featureProps(props, out, rawProps, i) ==
    IF i > Len(rawProps.keys) THEN [props |-> props, outputs |-> out]
    ELSE LET prop == rawProps.at[i]
             supported == prop.t \in {"number", "string", "boolean", "Date"}
         IN  featureProps(Put(props, rawProps.keys[i], featurePropValue(prop)),
                          IF supported THEN out
                          ELSE Append(out, ErrorMessage("Unsupported property type {0}", prop)),
                          rawProps, i + 1)

\* assignLayerName, lines 346-374: the loop over layerNames[i..]; the name it
\* assigns, or Undefined when it ends without assigning one
RECURSIVE CandidateName(_, _, _)
CandidateName(properties, names, i) ==
    IF i > Len(names) THEN Undefined
    ELSE LET layerName == Get(properties, names[i])
         IN  IF layerName = Undefined THEN CandidateName(properties, names, i + 1)
             ELSE IF layerName.t = "number"
             THEN IF ~isFinite(layerName) THEN CandidateName(properties, names, i + 1)
                  ELSE Str(NumberToString(layerName))
             ELSE IF layerName.t = "string"
             THEN IF Len(layerName.s) = 0 THEN CandidateName(properties, names, i + 1)
                  ELSE layerName
             ELSE IF layerName.t = "Date"
             THEN IF ~layerName.valid THEN CandidateName(properties, names, i + 1)
                  ELSE Str(DateToLocaleString(layerName))
             ELSE Undefined  \* neither case assigns; the break of line 372 ends the loop

\* assignLayerName: the new layerData and layerIDs.next
assignLayerName(layerData, properties, names, next) ==
    IF Get(layerData, K_name) # Undefined
    THEN [layerData |-> layerData, next |-> next]
    ELSE LET name == CandidateName(properties, names, 1)
         IN  IF name # Undefined
             THEN [layerData |-> Put(layerData, K_name, name), next |-> next]
             ELSE [layerData |-> Put(layerData, K_name, Str(NatToString(next + 1))),
                   next |-> next + 1]

\* loadFeature, lines 382-384: the layer data handed to drawing.layers.add,
\* with the new outputs and layerIDs.next
LayerDataOf(feature, names, next, out) ==
    LET fp == featureProps(EmptyObject, out, feature.properties, 1)
        r  == assignLayerName(Put(fp.props, K_type, SmdxElement), feature.properties,
                              names, next)
    IN  [layerData |-> r.layerData, next |-> r.next, outputs |-> fp.outputs]

\* a layer of the drawing: the data it was created from, its disabled flag and
\* its $layer back-reference (the position of the parent in layers, 0 when unset)
Layer(data, disabled) == [data |-> data, disabled |-> disabled, parent |-> 0]

\* a loadFeature that attaches the leaf under the dataset layer as it creates it
AttachedLeafLayer(data, parent) == [Layer(data, TRUE) EXCEPT !.parent = parent]

\* loadFeature, lines 385-386: the leaf layer is created and disabled; its
\* $layer is left for loadShapes to set after featureGeometry (line 415)
LeafLayer(data, parent) == Layer(data, TRUE)
LayerName(layer) == GetOwn(layer.data, K_name)

(***************************************************************************)
(* Geometry Mapper: coordinatesToVec3, scaleCoordinates and the calls      *)
(* featureGeometry makes on the editor, in order.                          *)
(***************************************************************************)
SCALE == 1

coordinatesToVec3(c) ==
    IF Len(c) >= 3 THEN <<c[1], c[2], c[3]>> ELSE <<c[1], c[2], 0>>
scaleCoordinates(c) == [i \in 1..Len(c) |-> c[i] * SCALE]
ToVertex(c) == scaleCoordinates(coordinatesToVec3(c))
ToVertices(cs) == [i \in 1..Len(cs) |-> ToVertex(cs[i])]

Circle(center) == [call |-> "addCircle", center |-> center, radius |-> Num(5, 3)]
Line(a, b) == [call |-> "addLine", a |-> a, b |-> b]
Polyline3d(vertices) == [call |-> "addPolyline3d", vertices |-> vertices]

\* a mapper that makes a polyline of every line string
AlwaysPolyline(cs) == Polyline3d(ToVertices(cs))

\* lines 255-269 and 303-316: a line for exactly two points, else a polyline
LineOrPolyline(cs) ==
    IF Len(cs) = 2 THEN Line(ToVertex(cs[1]), ToVertex(cs[2]))
    ELSE Polyline3d(ToVertices(cs))

RECURSIVE Flatten(_)
Flatten(ss) == IF ss = <<>> THEN <<>> ELSE Head(ss) \o Flatten(Tail(ss))

\* the primitives featureGeometry asks the editor for, in the order of the calls
Primitives(g) ==
    IF g.type = "Point" THEN <<Circle(ToVertex(g.coordinates))>>
    ELSE IF g.type = "LineString" THEN <<LineOrPolyline(g.coordinates)>>
    ELSE IF g.type = "Polygon"
    THEN [i \in 1..Len(g.coordinates) |-> Polyline3d(ToVertices(g.coordinates[i]))]
    ELSE IF g.type = "MultiPoint"
    THEN [i \in 1..Len(g.coordinates) |-> Circle(ToVertex(g.coordinates[i]))]
    ELSE IF g.type = "MultiLineString"
    THEN [i \in 1..Len(g.coordinates) |-> LineOrPolyline(g.coordinates[i])]
    ELSE IF g.type = "MultiPolygon"
    THEN Flatten([i \in 1..Len(g.coordinates) |->
                    [j \in 1..Len(g.coordinates[i]) |->
                        Polyline3d(ToVertices(g.coordinates[i][j]))]])
    ELSE <<>>

GeometryTypes ==
    {"Point", "LineString", "Polygon", "MultiPoint", "MultiLineString", "MultiPolygon"}

(***************************************************************************)
(* Exceptions.  Every call on the host or the decoder that import awaits   *)
(* either returns or throws.  An exception thrown inside the inner try     *)
(* block runs its finally block (endUpdate, endEdit) with the exception    *)
(* pending; any other goes straight to the catch clause.                   *)
(***************************************************************************)
InnerTry == {"addRoot", "loadShapes", "parentSetx", "features", "featureGeometry",
             "entitySetx", "leafSetx"}

\* where control goes when the call awaited at location loc throws
HandlerOf(loc) == IF loc \in InnerTry THEN "endUpdate" ELSE "catch"

Count(seq, x) == Cardinality({i \in 1..Len(seq) : seq[i] = x})

Snapshot == [at |-> pc, layers |-> layers, entities |-> entities,
             decoded |-> Len(geoJSONs.keys), picks |-> Count(trace, "showQuickPick")]

\* the call named call throws
Raise(call) ==
    /\ exc' = call
    /\ pc' = HandlerOf(pc)
    /\ hist' = [hist EXCEPT !.raised = @ + 1,
                            !.snap = IF hist.raised = 0 THEN Snapshot ELSE @]

\* the call returns
Return(to) ==
    /\ pc' = to
    /\ UNCHANGED <<exc, hist>>

(***************************************************************************)
(* SpecCatalogue: decodeGeoJSONs applied to the decoder results of the     *)
(* bounds.                                                                 *)
(***************************************************************************)
K_area == <<"a", "r", "e", "a">>
K_flag == <<"f", "l", "a", "g">>
Lot1 == <<"L", "o", "t", " ", "1">>

Absent == [t |-> "absent"]
\* the object {name: n, area: a, flag: f} without the absent members
Properties(n, a, f) ==
    LET one(k, v) == IF v = Absent THEN EmptyObject ELSE Put(EmptyObject, k, v)
        two(o, k, v) == IF v = Absent THEN o ELSE Put(o, k, v)
    IN  two(two(one(K_name, n), K_area, a), K_flag, f)

NameValues == {Absent, Str(Lot1), Str(<<>>)}
AreaValues == {Absent, Num(1205, 1), NaN, Date(MsPerDay), InvalidDate}
FlagValues == {Absent, Bool(TRUE), Null}
PropertySets == {Properties(n, a, f) : n \in NameValues, a \in AreaValues, f \in FlagValues}

PointGeometry == [type |-> "Point", coordinates |-> <<1, 2>>]
CatalogueFeatures ==
    {[type |-> ty, geometry |-> PointGeometry, properties |-> p] :
        ty \in {"Feature"}, p \in PropertySets}
    \cup {[type |-> "Other", geometry |-> PointGeometry,
           properties |-> Properties(Str(Lot1), Absent, Absent)]}

\* groups after extractGroups has found shp files of one or two datasets
OneDataset == Put(EmptyObject, <<"a">>, Put(EmptyObject, <<"s", "h", "p">>, 1))
TwoDatasets == Put(OneDataset, <<"b">>, Put(EmptyObject, <<"s", "h", "p">>, 2))

InitCatalogue ==
    /\ pc = "decodeGeoJSONs"
    /\ frames = <<>> /\ seen = <<>>
    /\ groups \in {OneDataset, TwoDatasets}
    /\ builtins = EmptyObject
    /\ outputs = <<>> /\ details = <<>>
    /\ geoJSONs = EmptyObject /\ propNames = EmptyObject
    /\ todo = 0 /\ layerNames = <<>> /\ layerIDs = 0
    /\ layers = <<>> /\ entities = <<>>
    /\ cur = NoCur /\ trace = <<>>
    /\ exc = "none" /\ hist = NoHist

NextCatalogue ==
    \/ \E type \in {"FeatureCollection", "Other"}, n \in 0..MaxFeatures :
          DecodeDataset(type, n, MaxFeatures)
    \/ \E feature \in CatalogueFeatures : DecodeFeature(feature)
    \/ DecodeReturn

SpecCatalogue == InitCatalogue /\ [][NextCatalogue]_vars

\* the values the features scanned by decodeGeoJSONs hold for a field
ScannedValues(field) ==
    LET scanned == UNION {Range(g.features) :
                            g \in {x \in Range(geoJSONs.at) : x.type = "FeatureCollection"}}
    IN  {GetOwn(f.properties, field) :
            f \in {x \in scanned : x.type = "Feature" /\ HasOwn(x.properties, field)}}
ClaimedKinds == {"number", "string", "boolean", "Date"}
ClaimedRetained(v) ==
    \/ v.t = "number" /\ v.k = "finite"
    \/ v.t = "string" /\ v.s # <<>>
    \/ v.t = "boolean"
    \/ v.t = "Date" /\ v.valid
ClaimedExample(v) ==
    IF v.t = "string" THEN Str(<<Quote>> \o v.s \o <<Quote>>)
    ELSE IF v.t = "Date" THEN Str(DateToLocaleString(v))
    ELSE v

\* C5: once decodeGeoJSONs has returned, the catalogue has an entry for
\* (field, kind) exactly when a scanned feature holds a retained value of that
\* kind for the field (finite number, non-empty text, any boolean, valid
\* date), and the entry's example is such a value: a text in double quotes,
\* a date as its locale string, a number or a boolean as it is.
C5_CatalogueExact ==
    pc = "choosePossibleLayerNameProps" =>
        \A field \in {K_name, K_area, K_flag}, kind \in ClaimedKinds :
            LET retained == {v \in ScannedValues(field) : v.t = kind /\ ClaimedRetained(v)}
                entry == HasOwn(propNames, field) /\ HasOwn(GetOwn(propNames, field), kind)
            IN  /\ entry <=> retained # {}
                /\ entry => GetOwn(GetOwn(propNames, field), kind)
                                \in {ClaimedExample(v) : v \in retained}

\* the same statement with the booleans left out of the retained values
C5_CatalogueWithoutBooleans ==
    pc = "choosePossibleLayerNameProps" =>
        \A field \in {K_name, K_area, K_flag}, kind \in ClaimedKinds :
            LET retained == {v \in ScannedValues(field) :
                                v.t = kind /\ ClaimedRetained(v) /\ v.t # "boolean"}
                entry == HasOwn(propNames, field) /\ HasOwn(GetOwn(propNames, field), kind)
            IN  /\ entry <=> retained # {}
                /\ entry => GetOwn(GetOwn(propNames, field), kind)
                                \in {ClaimedExample(v) : v \in retained}

(***************************************************************************)
(* Import Orchestrator: SHPImporter.import, with loadShapes, loadFeature   *)
(* and featureGeometry as the steps between two awaits.  A parameter ok    *)
(* tells whether the awaited call returns or throws.                       *)
(***************************************************************************)
Filename == <<"r", "o", "o", "t">>
ReadingFile == <<"r", "e", "a", "d">>
InfoMessage(fmt, arg) == [level |-> "info", fmt |-> fmt, arg |-> arg]

\* a catch clause that swallows the exception
SwallowException(out, e) == out

\* line 471: the catch clause sends the exception to the output channel
LogException(out, e) == Append(out, [level |-> "error", fmt |-> "exception", arg |-> e])

\* lines 436-447: up to the first await; without a model layout import returns
ImportStart(hasLayout) ==
    /\ pc = "import"
    /\ outputs' = Append(outputs, InfoMessage("Import shape from {0}", Filename))
    /\ details' = IF hasLayout THEN ReadingFile ELSE details
    /\ pc' = IF hasLayout THEN "propfind" ELSE "endProgress"
    /\ UNCHANGED <<frames, seen, groups, builtins, geoJSONs, propNames, todo, layerNames,
                   layerIDs, layers, entities, cur, trace, exc, hist>>

\* line 448: workspace.root.propfind() returns n items or throws
RootPropfind(n, ok) ==
    /\ pc = "propfind"
    /\ IF ok THEN frames' = <<n>> /\ Return("extractGroups")
             ELSE frames' = frames /\ Raise("propfind")
    /\ UNCHANGED <<seen, groups, builtins, outputs, details, geoJSONs, propNames, todo,
                   layerNames, layerIDs, layers, entities, cur, trace>>

\* lines 64 and 86: item.get() or item.propfind() throws and extractGroups unwinds
GroupThrows(call) ==
    /\ pc = "extractGroups"
    /\ frames # <<>> /\ Top(frames) > 0
    /\ frames' = <<>>
    /\ Raise(call)
    /\ UNCHANGED <<seen, groups, builtins, outputs, details, geoJSONs, propNames, todo,
                   layerNames, layerIDs, layers, entities, cur, trace>>

\* line 136: shp(group) throws
DecodeThrows ==
    /\ pc = "decodeGeoJSONs"
    /\ todo = 0
    /\ cur.i < Len(groups.keys)
    /\ Raise("shp")
    /\ UNCHANGED <<frames, seen, groups, builtins, outputs, details, geoJSONs, propNames,
                   todo, layerNames, layerIDs, layers, entities, cur, trace>>

\* the lists of distinct labels a multi-selection over labels can return
Selections(labels) ==
    {sel \in UNION {[1..n -> Range(labels)] : n \in 0..Len(labels)} :
        \A i, j \in 1..Len(sel) : sel[i] = sel[j] => i = j}

\* choosePossibleLayerNameProps with line 455: one option per catalogue field;
\* showQuickPick returns the selected options, or it throws (an undefined result
\* throws at line 181)
ChooseLayerNames(selected, ok) ==
    /\ pc = "choosePossibleLayerNameProps"
    /\ selected \in Selections(propNames.keys)
    /\ trace' = Append(trace, "showQuickPick")
    /\ exc' = IF ok THEN exc ELSE "showQuickPick"
    /\ pc' = IF ok THEN "beginUpdate" ELSE HandlerOf(pc)
    /\ hist' = [hist EXCEPT
                  !.picked = [decoded |-> Len(geoJSONs.keys), datasets |-> Len(groups.keys),
                              todo |-> todo, layers |-> Len(layers)],
                  !.raised = IF ok THEN @ ELSE @ + 1,
                  !.snap = IF ok \/ hist.raised > 0 THEN @
                           ELSE [Snapshot EXCEPT !.picks = 1]]
    /\ layerNames' = IF ok THEN selected ELSE layerNames
    /\ layerIDs' = IF ok THEN 0 ELSE layerIDs
    /\ UNCHANGED <<frames, seen, groups, builtins, outputs, details, geoJSONs, propNames,
                   todo, layers, entities, cur>>

\* line 456: drawing.layers.beginUpdate()
BeginUpdate(ok) ==
    /\ pc = "beginUpdate"
    /\ trace' = Append(trace, "beginUpdate")
    /\ IF ok THEN Return("beginEdit") ELSE Raise("beginUpdate")
    /\ UNCHANGED <<frames, seen, groups, builtins, outputs, details, geoJSONs, propNames,
                   todo, layerNames, layerIDs, layers, entities, cur>>

\* lines 457-458: layout.editor() throws, or editor.beginEdit() returns or throws
BeginEdit(outcome) ==
    /\ pc = "beginEdit"
    /\ trace' = IF outcome = "editor throws" THEN trace ELSE Append(trace, "beginEdit")
    /\ IF outcome = "returns" THEN Return("addRoot") ELSE Raise(outcome)
    /\ UNCHANGED <<frames, seen, groups, builtins, outputs, details, geoJSONs, propNames,
                   todo, layerNames, layerIDs, layers, entities, cur>>

NamedLayerData(name) == Put(Put(EmptyObject, K_type, SmdxElement), K_name, Str(name))

\* lines 460-465: the root layer is created and disabled; loadShapes starts
AddRoot(ok) ==
    /\ pc = "addRoot"
    /\ IF ok THEN /\ layers' = Append(layers, Layer(NamedLayerData(Filename), TRUE))
                  /\ cur' = [NoCur EXCEPT !.root = Len(layers) + 1]
                  /\ Return("loadShapes")
             ELSE /\ UNCHANGED <<layers, cur>>
                  /\ Raise("layers.add")
    /\ UNCHANGED <<frames, seen, groups, builtins, outputs, details, geoJSONs, propNames,
                   todo, layerNames, layerIDs, entities, trace>>

\* loadShapes, lines 394-407 and 425-427: the next dataset; its layer is created
\* and disabled, or its GeoJSON type is reported as unsupported
LoadShapesNext(ok) ==
    /\ pc = "loadShapes"
    /\ cur.i < Len(geoJSONs.keys)
    /\ LET name == geoJSONs.keys[cur.i + 1]
           geojson == geoJSONs.at[cur.i + 1]
       IN  IF geojson.type = "FeatureCollection"
           THEN /\ details' = name
                /\ outputs' = outputs
                /\ IF ok THEN /\ layers' = Append(layers, Layer(NamedLayerData(name), TRUE))
                              /\ cur' = [cur EXCEPT !.parent = Len(layers) + 1]
                              /\ Return("parentSetx")
                         ELSE /\ UNCHANGED <<layers, cur>>
                              /\ Raise("layers.add")
           ELSE /\ ok
                /\ outputs' = Append(outputs,
                                     ErrorMessage("Unsupported GeoJSON type {0}", geojson.type))
                /\ cur' = [cur EXCEPT !.i = cur.i + 1]
                /\ UNCHANGED <<details, layers, pc, exc, hist>>
    /\ UNCHANGED <<frames, seen, groups, builtins, geoJSONs, propNames, todo, layerNames,
                   layerIDs, entities, trace>>

\* loadShapes: the loop over the datasets has ended; the finally block starts
LoadShapesReturn ==
    /\ pc = "loadShapes"
    /\ cur.i = Len(geoJSONs.keys)
    /\ Return("endUpdate")
    /\ UNCHANGED <<frames, seen, groups, builtins, outputs, details, geoJSONs, propNames,
                   todo, layerNames, layerIDs, layers, entities, cur, trace>>

\* loadShapes, line 408: parent.setx('$layer', root)
ParentSetx(ok) ==
    /\ pc = "parentSetx"
    /\ IF ok THEN /\ layers' = [layers EXCEPT ![cur.parent].parent = cur.root]
                  /\ cur' = [cur EXCEPT !.j = 0]
                  /\ Return("features")
             ELSE /\ UNCHANGED <<layers, cur>>
                  /\ Raise("setx")
    /\ UNCHANGED <<frames, seen, groups, builtins, outputs, details, geoJSONs, propNames,
                   todo, layerNames, layerIDs, entities, trace>>

\* the feature loadShapes is working on
CurrentFeature == geoJSONs.at[cur.i + 1].features[cur.j + 1]

\* loadShapes, lines 410-421 with loadFeature, lines 382-386: the next feature;
\* its layer data gets a name and its layer is created and disabled, or its
\* type is reported as unsupported
LoadFeature(ok) ==
    /\ pc = "features"
    /\ cur.j < Len(geoJSONs.at[cur.i + 1].features)
    /\ LET feature == CurrentFeature
           r == LayerDataOf(feature, layerNames, layerIDs, outputs)
       IN  IF feature.type = "Feature"
           THEN /\ outputs' = r.outputs
                /\ layerIDs' = r.next
                /\ IF ok THEN /\ layers' = Append(layers, LeafLayer(r.layerData, cur.parent))
                              /\ cur' = [cur EXCEPT !.leaf = Len(layers) + 1,
                                                    !.geometry = feature.geometry,
                                                    !.parts = Primitives(feature.geometry)]
                              /\ pc' = "featureGeometry"
                              /\ exc' = exc
                              /\ hist' = [hist EXCEPT !.leaves =
                                            Append(@, [layer |-> Len(layers) + 1,
                                                       feature |-> feature,
                                                       next |-> layerIDs])]
                         ELSE /\ UNCHANGED <<layers, cur>>
                              /\ Raise("layers.add")
           ELSE /\ ok
                /\ outputs' = Append(outputs,
                                     ErrorMessage("Unsupported feature type {0}", feature.type))
                /\ cur' = [cur EXCEPT !.j = cur.j + 1]
                /\ UNCHANGED <<layerIDs, layers, pc, exc, hist>>
    /\ UNCHANGED <<frames, seen, groups, builtins, details, geoJSONs, propNames, todo,
                   layerNames, entities, trace>>

\* loadShapes: the loop over the features of the dataset has ended
FeaturesDone ==
    /\ pc = "features"
    /\ cur.j = Len(geoJSONs.at[cur.i + 1].features)
    /\ cur' = [cur EXCEPT !.i = cur.i + 1]
    /\ Return("loadShapes")
    /\ UNCHANGED <<frames, seen, groups, builtins, outputs, details, geoJSONs, propNames,
                   todo, layerNames, layerIDs, layers, entities, trace>>

\* featureGeometry: the next editor.addCircle / addLine / addPolyline3d
AddEntity(ok) ==
    /\ pc = "featureGeometry"
    /\ cur.parts # <<>>
    /\ IF ok THEN /\ entities' = Append(entities, [prim |-> Head(cur.parts), layer |-> 0])
                  /\ cur' = [cur EXCEPT !.parts = Tail(cur.parts)]
                  /\ Return("entitySetx")
             ELSE /\ UNCHANGED <<entities, cur>>
                  /\ Raise(Head(cur.parts).call)
    /\ UNCHANGED <<frames, seen, groups, builtins, outputs, details, geoJSONs, propNames,
                   todo, layerNames, layerIDs, layers, trace>>

\* featureGeometry: entity.setx('$layer', layer) on the primitive just created
EntitySetx(ok) ==
    /\ pc = "entitySetx"
    /\ IF ok THEN /\ entities' = [entities EXCEPT ![Len(entities)].layer = cur.leaf]
                  /\ Return("featureGeometry")
             ELSE /\ UNCHANGED entities
                  /\ Raise("setx")
    /\ UNCHANGED <<frames, seen, groups, builtins, outputs, details, geoJSONs, propNames,
                   todo, layerNames, layerIDs, layers, cur, trace>>

\* featureGeometry returns (the default branch first reports the geometry type)
\* and loadFeature returns the layer
GeometryReturn ==
    /\ pc = "featureGeometry"
    /\ cur.parts = <<>>
    /\ outputs' = IF cur.geometry.type \in GeometryTypes THEN outputs
                  ELSE Append(outputs, ErrorMessage("Unsupported geometry type {0}",
                                                    cur.geometry.type))
    /\ Return("leafSetx")
    /\ UNCHANGED <<frames, seen, groups, builtins, details, geoJSONs, propNames, todo,
                   layerNames, layerIDs, layers, entities, cur, trace>>

\* loadShapes, line 415: layer.setx('$layer', parent)
LeafSetx(ok) ==
    /\ pc = "leafSetx"
    /\ IF ok THEN /\ layers' = [layers EXCEPT ![cur.leaf].parent = cur.parent]
                  /\ cur' = [cur EXCEPT !.j = cur.j + 1]
                  /\ Return("features")
             ELSE /\ UNCHANGED <<layers, cur>>
                  /\ Raise("setx")
    /\ UNCHANGED <<frames, seen, groups, builtins, outputs, details, geoJSONs, propNames,
                   todo, layerNames, layerIDs, entities, trace>>

\* line 467, in the finally block: drawing.layers.endUpdate(); when it throws,
\* its exception replaces the pending one and endEdit is not reached
EndUpdate(ok) ==
    /\ pc = "endUpdate"
    /\ trace' = Append(trace, "endUpdate")
    /\ IF ok THEN Return("endEdit") ELSE Raise("endUpdate")
    /\ UNCHANGED <<frames, seen, groups, builtins, outputs, details, geoJSONs, propNames,
                   todo, layerNames, layerIDs, layers, entities, cur>>

\* line 468: editor.endEdit(); after it a pending exception goes on to the catch
EndEdit(ok) ==
    /\ pc = "endEdit"
    /\ trace' = Append(trace, "endEdit")
    /\ IF ok THEN Return(IF exc = "none" THEN "endProgress" ELSE "catch")
             ELSE Raise("endEdit")
    /\ UNCHANGED <<frames, seen, groups, builtins, outputs, details, geoJSONs, propNames,
                   todo, layerNames, layerIDs, layers, entities, cur>>

\* lines 470-471: the catch clause
Catch ==
    /\ pc = "catch"
    /\ outputs' = LogException(outputs, exc)
    /\ trace' = Append(trace, "log")
    /\ exc' = "none"
    /\ pc' = "endProgress"
    /\ UNCHANGED <<frames, seen, groups, builtins, details, geoJSONs, propNames, todo,
                   layerNames, layerIDs, layers, entities, cur, hist>>

\* lines 472-473: the outer finally block; import returns
EndProgress ==
    /\ pc = "endProgress"
    /\ trace' = Append(trace, "endProgress")
    /\ pc' = "done"
    /\ UNCHANGED <<frames, seen, groups, builtins, outputs, details, geoJSONs, propNames,
                   todo, layerNames, layerIDs, layers, entities, cur, exc, hist>>

(***************************************************************************)
(* Spec: one run of import.                                                *)
(***************************************************************************)
RunTitles == {T_a_shp, T_b_shp}

\* the features the decoder returns in a run
RunFeatures ==
    { [type |-> "Feature", geometry |-> PointGeometry,
       properties |-> Properties(Absent, Num(1205, 1), Absent)],
      [type |-> "Feature",
       geometry |-> [type |-> "LineString", coordinates |-> <<<<0, 0>>, <<4, 0, 1>>>>],
       properties |-> Properties(Absent, Absent, Bool(TRUE))],
      [type |-> "Other", geometry |-> PointGeometry,
       properties |-> Properties(Absent, Absent, Absent)] }

Init ==
    /\ pc = "import"
    /\ frames = <<>>
    /\ Fresh

Next ==
    \/ \E hasLayout \in BOOLEAN : ImportStart(hasLayout)
    \/ \E n \in 0..MaxItems, ok \in BOOLEAN : RootPropfind(n, ok)
    \/ \E title \in RunTitles : GroupFile(title, RunMaxFiles)
    \/ \E n \in 0..MaxItems : GroupFolder(n)
    \/ \E call \in {"item.get", "item.propfind"} : GroupThrows(call)
    \/ GroupReturn(TRUE)
    \/ \E type \in {"FeatureCollection", "Other"}, n \in 0..RunMaxFeatures :
          DecodeDataset(type, n, RunMaxFeatures)
    \/ \E feature \in RunFeatures : DecodeFeature(feature)
    \/ DecodeThrows
    \/ DecodeReturn
    \/ \E selected \in Selections(propNames.keys), ok \in BOOLEAN :
          ChooseLayerNames(selected, ok)
    \/ \E ok \in BOOLEAN : BeginUpdate(ok)
    \/ \E outcome \in {"returns", "beginEdit", "editor throws"} : BeginEdit(outcome)
    \/ \E ok \in BOOLEAN : AddRoot(ok)
    \/ \E ok \in BOOLEAN : LoadShapesNext(ok)
    \/ LoadShapesReturn
    \/ \E ok \in BOOLEAN : ParentSetx(ok)
    \/ \E ok \in BOOLEAN : LoadFeature(ok)
    \/ FeaturesDone
    \/ \E ok \in BOOLEAN : AddEntity(ok)
    \/ \E ok \in BOOLEAN : EntitySetx(ok)
    \/ GeometryReturn
    \/ \E ok \in BOOLEAN : LeafSetx(ok)
    \/ \E ok \in BOOLEAN : EndUpdate(ok)
    \/ \E ok \in BOOLEAN : EndEdit(ok)
    \/ Catch
    \/ EndProgress

Spec == Init /\ [][Next]_vars

(***************************************************************************)
(* SpecNames: loadShapes inside one dataset, for the feature collections   *)
(* and the approved candidate lists of the bounds.                         *)
(***************************************************************************)
NameFeatures ==
    {[type |-> "Feature", geometry |-> PointGeometry, properties |-> p] : p \in PropertySets}
FeatureLists == UNION {[1..n -> NameFeatures] : n \in 0..MaxFeatures}

InitNames ==
    /\ pc = "features"
    /\ frames = <<>> /\ seen = <<>>
    /\ groups = OneDataset /\ builtins = EmptyObject
    /\ outputs = <<>> /\ details = <<"a">>
    /\ \E fs \in FeatureLists :
          geoJSONs = Put(EmptyObject, <<"a">>, [type |-> "FeatureCollection", features |-> fs])
    /\ propNames = EmptyObject /\ todo = 0
    /\ layerNames \in Selections(<<K_name, K_area, K_flag>>)
    /\ layerIDs = 0
    /\ layers = <<Layer(NamedLayerData(Filename), TRUE),
                  [Layer(NamedLayerData(<<"a">>), TRUE) EXCEPT !.parent = 1]>>
    /\ entities = <<>>
    /\ cur = [NoCur EXCEPT !.root = 1, !.parent = 2]
    /\ trace = <<"showQuickPick", "beginUpdate", "beginEdit">>
    /\ exc = "none" /\ hist = NoHist

NextNames ==
    \/ LoadFeature(TRUE)
    \/ AddEntity(TRUE)
    \/ EntitySetx(TRUE)
    \/ GeometryReturn
    \/ LeafSetx(TRUE)
    \/ FeaturesDone

SpecNames == InitNames /\ [][NextNames]_vars

ClaimedUsable(v) ==
    \/ v.t = "number" /\ v.k = "finite"
    \/ v.t = "string" /\ v.s # <<>>
    \/ v.t = "Date" /\ v.valid
ClaimedFormat(v) ==
    IF v.t = "number" THEN NumberToString(v)
    ELSE IF v.t = "Date" THEN DateToLocaleString(v)
    ELSE v.s
\* the positions in names of the candidates with a usable value in props
UsableCandidates(props, names) ==
    {i \in 1..Len(names) : HasOwn(props, names[i]) /\ ClaimedUsable(GetOwn(props, names[i]))}
FirstUsable(props, names) ==
    GetOwn(props, names[CHOOSE i \in UsableCandidates(props, names) :
                            \A k \in UsableCandidates(props, names) : i <= k])

\* C3: the name of every leaf layer made from a feature with a usable
\* candidate is the formatted value of the first usable candidate.
C3_FirstUsableCandidateNames ==
    \A n \in 1..Len(hist.leaves) :
        LET leaf == hist.leaves[n]
            props == leaf.feature.properties
        IN  UsableCandidates(props, layerNames) # {} =>
                LayerName(layers[leaf.layer]) = Str(ClaimedFormat(FirstUsable(props, layerNames)))

\* the leaves, among the first n, made from a feature without a usable candidate
Fallbacks(n) ==
    {k \in 1..n : UsableCandidates(hist.leaves[k].feature.properties, layerNames) = {}}

\* C4: the counter counts the features without a usable candidate, and the
\* k-th of them has the leaf layer name k.
C4_FallbackCounterNames ==
    /\ layerIDs = Cardinality(Fallbacks(Len(hist.leaves)))
    /\ \A n \in Fallbacks(Len(hist.leaves)) :
          LayerName(layers[hist.leaves[n].layer]) = Str(NatToString(Cardinality(Fallbacks(n))))

(***************************************************************************)
(* SpecGeometry: featureGeometry applied to the geometries of the bounds,  *)
(* from the state in which loadFeature calls it.                           *)
(***************************************************************************)
\* the i-th point of a line or ring: 2D at the odd positions, 3D at the even ones
PointAt(i) == IF i % 2 = 1 THEN <<i, 2>> ELSE <<i, 2, 3>>
Path(n) == [i \in 1..n |-> PointAt(i)]
SeqsUpTo(S, n) == UNION {[1..k -> S] : k \in 0..n}

Rings == {Path(2), Path(MaxPoints)}
Geometries ==
    {[type |-> "Point", coordinates |-> c] : c \in {<<1, 2>>, <<1, 2, 3>>}}
    \cup {[type |-> "LineString", coordinates |-> Path(n)] : n \in 0..MaxPoints}
    \cup {[type |-> "Polygon", coordinates |-> c] : c \in SeqsUpTo(Rings, MaxParts)}
    \cup {[type |-> "MultiPoint", coordinates |-> c] :
            c \in SeqsUpTo({<<1, 2>>, <<1, 2, 3>>}, MaxParts)}
    \cup {[type |-> "MultiLineString", coordinates |-> c] :
            c \in SeqsUpTo({Path(n) : n \in 0..MaxPoints}, MaxParts)}
    \cup {[type |-> "MultiPolygon", coordinates |-> c] :
            c \in SeqsUpTo(SeqsUpTo(Rings, MaxParts), MaxParts)}
    \cup {[type |-> "GeometryCollection", coordinates |-> <<>>]}

InitGeometry ==
    /\ pc = "featureGeometry"
    /\ frames = <<>> /\ seen = <<>>
    /\ groups = OneDataset /\ builtins = EmptyObject
    /\ outputs = <<>> /\ details = <<"a">>
    /\ propNames = EmptyObject /\ todo = 0
    /\ layerNames = <<>> /\ layerIDs = 1
    /\ entities = <<>>
    /\ trace = <<"showQuickPick", "beginUpdate", "beginEdit">>
    /\ exc = "none"
    /\ \E g \in Geometries :
          LET feature == [type |-> "Feature", geometry |-> g, properties |-> EmptyObject]
              data == LayerDataOf(feature, <<>>, 0, <<>>).layerData
          IN  /\ geoJSONs = Put(EmptyObject, <<"a">>,
                                [type |-> "FeatureCollection", features |-> <<feature>>])
              /\ layers = <<Layer(NamedLayerData(Filename), TRUE),
                            [Layer(NamedLayerData(<<"a">>), TRUE) EXCEPT !.parent = 1],
                            Layer(data, TRUE)>>
              /\ cur = [NoCur EXCEPT !.root = 1, !.parent = 2, !.leaf = 3,
                                     !.geometry = g, !.parts = Primitives(g)]
              /\ hist = [NoHist EXCEPT !.leaves = <<[layer |-> 3, feature |-> feature,
                                                     next |-> 0]>>]

NextGeometry ==
    \/ \E ok \in BOOLEAN : AddEntity(ok)
    \/ \E ok \in BOOLEAN : EntitySetx(ok)
    \/ GeometryReturn

SpecGeometry == InitGeometry /\ [][NextGeometry]_vars

Created(call) == {k \in 1..Len(entities) : entities[k].prim.call = call}
RECURSIVE SumLen(_)
SumLen(ss) == IF ss = <<>> THEN 0 ELSE Len(Head(ss)) + SumLen(Tail(ss))
TwoPointParts(cs) == Cardinality({i \in 1..Len(cs) : Len(cs[i]) = 2})

\* the mapping table: how many circles, lines and polylines a geometry gives.
\* A LineString of fewer than two points is not in the table.
InMappingTable(g) ==
    /\ g.type \in GeometryTypes
    /\ g.type = "LineString" => Len(g.coordinates) >= 2
TableCircles(g) ==
    IF g.type = "Point" THEN 1
    ELSE IF g.type = "MultiPoint" THEN Len(g.coordinates) ELSE 0
TableLines(g) ==
    IF g.type = "LineString" THEN (IF Len(g.coordinates) = 2 THEN 1 ELSE 0)
    ELSE IF g.type = "MultiLineString" THEN TwoPointParts(g.coordinates) ELSE 0
TablePolylines(g) ==
    IF g.type = "LineString" THEN (IF Len(g.coordinates) > 2 THEN 1 ELSE 0)
    ELSE IF g.type = "Polygon" THEN Len(g.coordinates)
    ELSE IF g.type = "MultiLineString"
    THEN Len(g.coordinates) - TwoPointParts(g.coordinates)
    ELSE IF g.type = "MultiPolygon" THEN SumLen(g.coordinates) ELSE 0

Tail2(seq) == SubSeq(seq, Len(seq) - 1, Len(seq))
LoggedExceptions == {k \in 1..Len(outputs) : outputs[k].fmt = "exception"}

\* C1: when an exception thrown while creating the root layer or inside
\* loadShapes reaches the catch clause, endUpdate has been called exactly once
\* and then endEdit exactly once, and nothing has been logged yet.
C1_BothSessionsClosedInOrder ==
    (pc = "catch" /\ hist.raised > 0 /\ hist.snap.at \in InnerTry) =>
        /\ Count(trace, "endUpdate") = 1
        /\ Count(trace, "endEdit") = 1
        /\ Tail2(trace) = <<"endUpdate", "endEdit">>
        /\ Count(trace, "log") = 0

\* C2: when a run has terminated, each session was begun at most once and
\* every begin call issued has its end call issued.
C2_NoSessionLeftOpen ==
    pc = "done" =>
        /\ Count(trace, "beginUpdate") <= 1
        /\ Count(trace, "beginEdit") <= 1
        /\ Count(trace, "beginUpdate") = Count(trace, "endUpdate")
        /\ Count(trace, "beginEdit") = Count(trace, "endEdit")

\* C7 as stated: every terminated run has invoked the picker exactly once.
C7_PickerInEveryRun ==
    pc = "done" => Count(trace, "showQuickPick") = 1

\* C7, amended: the picker is invoked at most once; it has been invoked
\* exactly once in every run that has begun the layer update, created a layer
\* or completed without an exception and without the early return; and it
\* was invoked when every dataset had been decoded and no layer existed.
C7_PickerOnceBeforeWriting ==
    /\ Count(trace, "showQuickPick") <= 1
    /\ (Count(trace, "showQuickPick") = 1) <=> (hist.picked # Undefined)
    /\ (Count(trace, "beginUpdate") > 0 \/ Len(layers) > 0) =>
          /\ Count(trace, "showQuickPick") = 1
          /\ trace[1] = "showQuickPick"
    /\ (pc = "done" /\ hist.raised = 0 /\ trace # <<"endProgress">>) =>
          Count(trace, "showQuickPick") = 1
    /\ hist.picked # Undefined =>
          /\ hist.picked.decoded = hist.picked.datasets
          /\ hist.picked.datasets = Len(groups.keys)
          /\ hist.picked.todo = 0
          /\ hist.picked.layers = 0

\* a run over two datasets has picked once and written a leaf layer
C7_Witness ==
    /\ pc = "done" /\ hist.raised = 0
    /\ Len(groups.keys) = 2 /\ Len(hist.leaves) > 0
    /\ Count(trace, "showQuickPick") = 1

C10_AttachedBeforeGeometry ==
    pc \in {"featureGeometry", "entitySetx"} => layers[cur.leaf].parent = cur.parent

\* the primitives on the layer at position l, in creation order
RECURSIVE OnLayer(_, _)
OnLayer(l, n) ==
    IF n = 0 THEN <<>>
    ELSE IF entities[n].layer = l THEN Append(OnLayer(l, n - 1), entities[n].prim)
    ELSE OnLayer(l, n - 1)

\* C10, amended: the leaf layer is created disabled, then the Geometry Mapper
\* runs, and only then is the leaf attached: while the mapper works the leaf
\* is the newest layer, disabled and not attached, and a leaf that is attached
\* is attached under a dataset layer and has all primitives of its feature.
C10_GeometryBeforeAttach ==
    /\ pc \in {"featureGeometry", "entitySetx"} =>
          /\ cur.leaf = Len(layers)
          /\ layers[cur.leaf].disabled
          /\ layers[cur.leaf].parent = 0
    /\ \A n \in 1..Len(hist.leaves) :
          LET leaf == hist.leaves[n]
          IN  /\ layers[leaf.layer].disabled
              /\ layers[leaf.layer].parent # 0 =>
                    /\ layers[layers[leaf.layer].parent].parent = cur.root
                    /\ OnLayer(leaf.layer, Len(entities)) = Primitives(leaf.feature.geometry)

\* a leaf with a primitive on it has been attached under its dataset layer
C10_Witness ==
    /\ pc = "features"
    /\ Len(hist.leaves) = 1
    /\ layers[hist.leaves[1].layer].parent = cur.parent
    /\ OnLayer(hist.leaves[1].layer, Len(entities)) # <<>>

====
